---- MODULE Spec2Model ----
(***************************************************************************)
(* Cashboard (src/cashboard.jsx): the state of the App component, its      *)
(* event handlers and the values it derives on every render (summary       *)
(* totals, balance series, plan-vs-actual rows).                           *)
(*                                                                         *)
(* JavaScript strings that the code slices, compares or converts to        *)
(* numbers (dates, months, amounts, period keys) are sequences of          *)
(* one-character strings, so that slice, localeCompare, sort and Number    *)
(* are modelled by what they do to the characters.                         *)
(***************************************************************************)
EXTENDS Integers, Sequences, FiniteSets, TLC

VARIABLES
    setupDone,       \* useState(false)
    initialBalance,  \* useState(""): the text of the setup number input
    initialDate,     \* useState(today)
    entries,         \* useState([]): the ledger rows, in insertion order
    formData,        \* useState(emptyEntry()): the quick form
    period,          \* useState("month"): granularity of the balance chart
    toast,           \* useState(null): the last message shown
    plans,           \* useState([]): the monthly plans, in insertion order
    planForm,        \* useState(emptyPlan()): the plan form
    nextUid,         \* the next value uid() returns (uid() never repeats)
    tz,              \* the browser's UTC offset in minutes (east positive)
    view,            \* useState("form"): form or table view of the entry tab
    activeTab,       \* useState("entry"): the tab shown
    receiptPreview,  \* useState(null): the receipt shown in the modal
    reads,           \* the FileReader loads started and not yet completed
    rendered         \* the values the last recorded render computed

vars == <<setupDone, initialBalance, initialDate, entries, formData, period,
          toast, plans, planForm, nextUid, tz, view, activeTab, receiptPreview,
          reads, rendered>>

-----------------------------------------------------------------------------
(* Bounds of the model *)

MaxEntries == 2   \* rows of the ledger
MaxPlans == 2     \* plans of the plan list
MaxUid == 4       \* last uid drawn for a ledger row
MaxPlanUid == 5   \* last uid drawn for the plan form
MaxReads == 1     \* file reads in progress at one time

-----------------------------------------------------------------------------
(* Strings as character sequences *)

DigitChars == {"0", "1", "2", "3", "4", "5", "6", "7", "8", "9"}

DigitVal(c) ==
    CASE c = "0" -> 0 [] c = "1" -> 1 [] c = "2" -> 2 [] c = "3" -> 3
      [] c = "4" -> 4 [] c = "5" -> 5 [] c = "6" -> 6 [] c = "7" -> 7
      [] c = "8" -> 8 [] c = "9" -> 9

DigitChar(n) ==
    CASE n = 0 -> "0" [] n = 1 -> "1" [] n = 2 -> "2" [] n = 3 -> "3"
      [] n = 4 -> "4" [] n = 5 -> "5" [] n = 6 -> "6" [] n = 7 -> "7"
      [] n = 8 -> "8" [] n = 9 -> "9"

\* UTF-16 code unit of the characters that occur in dates, months and keys.
CharCode(c) ==
    CASE c = "-" -> 45
      [] c \in DigitChars -> 48 + DigitVal(c)
      [] c = "W" -> 87
      [] OTHER -> 255

\* a.localeCompare(b) / the default comparison of Array.prototype.sort:
\* -1, 0 or 1. For the digit-and-hyphen strings compared here the locale
\* order and the code-unit order agree.
RECURSIVE localeCompare(_, _)
localeCompare(a, b) ==
    IF a = <<>> THEN (IF b = <<>> THEN 0 ELSE -1)
    ELSE IF b = <<>> THEN 1
    ELSE IF CharCode(Head(a)) < CharCode(Head(b)) THEN -1
    ELSE IF CharCode(Head(a)) > CharCode(Head(b)) THEN 1
    ELSE localeCompare(Tail(a), Tail(b))

\* s.slice(0, n)
Slice0(s, n) == SubSeq(s, 1, IF Len(s) < n THEN Len(s) ELSE n)

\* A JavaScript string is truthy iff it is not empty.
Truthy(s) == s # <<>>

RECURSIVE DigitsValue(_, _)
DigitsValue(s, acc) ==
    IF s = <<>> THEN acc ELSE DigitsValue(Tail(s), 10 * acc + DigitVal(Head(s)))

AllDigits(s) == s # <<>> /\ \A i \in 1..Len(s) : s[i] \in DigitChars

\* Number(s): "" is 0, an optionally signed run of digits is its value, any
\* other text is NaN. Numerals with a fraction or an exponent are not among
\* the texts the model types into a number input.
Number(s) ==
    IF s = <<>> THEN [nan |-> FALSE, val |-> 0]
    ELSE IF AllDigits(s) THEN [nan |-> FALSE, val |-> DigitsValue(s, 0)]
    ELSE IF Head(s) = "-" /\ AllDigits(Tail(s))
         THEN [nan |-> FALSE, val |-> 0 - DigitsValue(Tail(s), 0)]
    ELSE IF Head(s) = "+" /\ AllDigits(Tail(s))
         THEN [nan |-> FALSE, val |-> DigitsValue(Tail(s), 0)]
    ELSE [nan |-> TRUE, val |-> 0]

\* The digits a text starts with
RECURSIVE LeadingDigits(_)
LeadingDigits(s) ==
    IF s = <<>> \/ Head(s) \notin DigitChars THEN <<>>
    ELSE <<Head(s)>> \o LeadingDigits(Tail(s))

\* NumberOrZero that reads the leading digits, as parseFloat(s) || 0 does
NumberOrZeroByPrefix(s) == DigitsValue(LeadingDigits(s), 0)

\* Number(s) || 0 : NaN and 0 are falsy.
NumberOrZero(s) == IF Number(s).nan THEN 0 ELSE Number(s).val

\* null, and a number, as values of one shape.
Null == [null |-> TRUE, val |-> 0]
Num(n) == [null |-> FALSE, val |-> n]

\* Number(s) || null : NaN and 0 are falsy.
NumberOrNull(s) ==
    IF Number(s).nan \/ Number(s).val = 0 THEN Null ELSE Num(Number(s).val)

\* String(n) for n >= 0
RECURSIVE String(_)
String(n) ==
    IF n < 10 THEN <<DigitChar(n)>> ELSE String(n \div 10) \o <<DigitChar(n % 10)>>

\* padStart2 that leaves the text as it is
padStart2Omitted(s) == s

\* s.padStart(2, "0")
padStart2(s) == IF Len(s) < 2 THEN <<"0">> \o s ELSE s

-----------------------------------------------------------------------------
(* Calendar arithmetic behind new Date(d), getFullYear(), getDay() *)

IsLeap(y) == (y % 4 = 0 /\ y % 100 # 0) \/ y % 400 = 0

DaysInYear(y) == IF IsLeap(y) THEN 366 ELSE 365

DaysBeforeMonth(y, m) ==
    LET cum == <<0, 31, 59, 90, 120, 151, 181, 212, 243, 273, 304, 334>>
    IN cum[m] + (IF m > 2 /\ IsLeap(y) THEN 1 ELSE 0)

DateYear(d) == DigitsValue(SubSeq(d, 1, 4), 0)
DateMonth(d) == DigitsValue(SubSeq(d, 6, 7), 0)
DateDay(d) == DigitsValue(SubSeq(d, 9, 10), 0)

\* Days from January 1 of the date's own year to the date.
DayOfYear0(d) == DaysBeforeMonth(DateYear(d), DateMonth(d)) + DateDay(d) - 1

\* new Date(y, 0, 1).getDay(): 0 = Sunday .. 6 = Saturday.
Jan1Weekday(y) ==
    (1 + 5 * ((y - 1) % 4) + 4 * ((y - 1) % 100) + 6 * ((y - 1) % 400)) % 7

\* new Date(d).getFullYear(): d is read as UTC midnight and the year is
\* taken in local time, so west of UTC January 1 is still in the old year.
LocalYear(d, offset) ==
    IF offset < 0 /\ DateMonth(d) = 1 /\ DateDay(d) = 1
    THEN DateYear(d) - 1 ELSE DateYear(d)

\* 86400000 ms, counted in minutes
MinutesPerDay == 1440

\* (dt - jan1) in minutes: jan1 is local midnight of January 1 of the local
\* year, dt is UTC midnight of d.
MinutesSinceJan1(d, offset) ==
    LET y == LocalYear(d, offset)
        days == IF y = DateYear(d) THEN DayOfYear0(d) ELSE DaysInYear(y)
    IN days * MinutesPerDay + offset

\* Math.ceil(a / b) for a >= 0, b > 0
Ceil(a, b) == (a + b - 1) \div b

parseMonth(d) == Slice0(d, 7)

parseWeekAt(d, offset) ==
    LET y == LocalYear(d, offset)
        wk == Ceil(MinutesSinceJan1(d, offset) + (Jan1Weekday(y) + 1) * MinutesPerDay,
                   7 * MinutesPerDay)
    IN String(y) \o <<"-", "W">> \o padStart2(String(wk))

parseWeek(d) == parseWeekAt(d, tz)

parseYear(d) == Slice0(d, 4)

-----------------------------------------------------------------------------
(* Values the handlers receive *)

\* TYPES: "収入" (income) and "支出" (expense)
TYPES == {"income", "expense"}

\* PERIODS
PERIODS == {"day", "week", "month", "year"}

\* Dates a date input yields (YYYY-MM-DD)
Date0105 == <<"2", "0", "2", "4", "-", "0", "1", "-", "0", "5">>
Date0106 == <<"2", "0", "2", "4", "-", "0", "1", "-", "0", "6">>
Date0210 == <<"2", "0", "2", "4", "-", "0", "2", "-", "1", "0">>
Date250103 == <<"2", "0", "2", "5", "-", "0", "1", "-", "0", "3">>
DateInputs == {Date0105, Date0106, Date0210, Date250103}

\* Months a month input yields (YYYY-MM)
Month01 == <<"2", "0", "2", "4", "-", "0", "1">>
Month02 == <<"2", "0", "2", "4", "-", "0", "2">>
Month03 == <<"2", "0", "2", "4", "-", "0", "3">>
MonthInputs == {Month01, Month02}

\* Texts a number input yields: empty, or a numeric literal
Amount1000 == <<"1", "0", "0", "0">>
Amount5000 == <<"5", "0", "0", "0">>
AmountMinus300 == <<"-", "3", "0", "0">>
AmountZero == <<"0">>
Amount10000 == <<"1", "0", "0", "0", "0">>
\* A text that is not a numeral: what a browser that shows the number input
\* as a plain text field hands over when "12a" is typed.
Amount12a == <<"1", "2", "a">>
AmountInputs == {<<>>, Amount1000, Amount5000}
PlanValueInputs == {<<>>, AmountZero, Amount5000}
BalanceInputs == {<<>>, AmountZero, Amount10000}

Lunch == <<"l", "u", "n", "c", "h">>
DescriptionInputs == {<<>>, Lunch}

\* UTC offsets of the browser, in minutes: the ledger and plan sessions run
\* in a browser set to UTC; BrowserOffsets below varies the zone.
TimezoneOffsets == {0}

\* new Date().toISOString().slice(0, 10)
Today == Date0105

\* Files chosen in a file input; a file stands for its data URL and its name.
\* NoFile is e.target.files[0] when the dialog was closed without a choice.
Files == {"receiptA", "receiptB"}
NoFile == "undefined"

\* Values of view and activeTab
Views == {"form", "table"}
Tabs == {"entry", "dashboard", "plan"}

NoReceipt == "null"
NoToast == "null"

\* Nothing recorded yet: done is the set of the computations recorded.
NotRendered ==
    [done |-> {},
     totals |-> [totalIncome |-> 0, totalExpense |-> 0, currentBalance |-> 0],
     series |-> <<>>,
     variance |-> <<>>]

emptyEntry(id) ==
    [id |-> id, date |-> Today, type |-> "expense", category |-> "food",
     description |-> <<>>, amount |-> <<>>, memo |-> "",
     receipt |-> NoReceipt, receiptName |-> ""]

emptyPlan(id) ==
    [id |-> id, month |-> Slice0(Today, 7), targetBalance |-> <<>>,
     plannedIncome |-> <<>>, plannedExpense |-> <<>>]

-----------------------------------------------------------------------------
(* Computed on every render *)

\* IsFilled that looks at the amount only
IsFilledByAmount(r) == Truthy(r.amount)

\* entries.filter((r) => r.description || r.amount)
IsFilled(r) == Truthy(r.description) \/ Truthy(r.amount)

Filled(es) == SelectSeq(es, IsFilled)

\* xs.filter(r => r.type === t).reduce((s, r) => s + (Number(r.amount) || 0), 0)
RECURSIVE SumOfType(_, _)
SumOfType(xs, t) ==
    IF xs = <<>> THEN 0
    ELSE (IF Head(xs).type = t THEN NumberOrZero(Head(xs).amount) ELSE 0)
         + SumOfType(Tail(xs), t)

CurrentBalance(es, ib) ==
    NumberOrZero(ib) + SumOfType(Filled(es), "income") - SumOfType(Filled(es), "expense")

\* [...xs].sort((a, b) => a.date.localeCompare(b.date)): a stable sort
RECURSIVE InsertByDate(_, _)
InsertByDate(sorted, e) ==
    IF sorted = <<>> THEN <<e>>
    ELSE IF localeCompare(e.date, Head(sorted).date) < 0 THEN <<e>> \o sorted
    ELSE <<Head(sorted)>> \o InsertByDate(Tail(sorted), e)

RECURSIVE SortByDate(_)
SortByDate(xs) ==
    IF xs = <<>> THEN <<>>
    ELSE InsertByDate(SortByDate(SubSeq(xs, 1, Len(xs) - 1)), xs[Len(xs)])

groupKey(per, offset, d) ==
    IF per = "day" THEN d
    ELSE IF per = "week" THEN parseWeekAt(d, offset)
    ELSE IF per = "month" THEN parseMonth(d)
    ELSE parseYear(d)

\* GroupEntries with = in place of +=
RECURSIVE GroupEntriesOverwrite(_, _, _, _)
GroupEntriesOverwrite(xs, per, offset, groups) ==
    IF xs = <<>> THEN groups
    ELSE LET e == Head(xs)
             k == groupKey(per, offset, e.date)
             g0 == IF k \in DOMAIN groups THEN groups
                   ELSE groups @@ (k :> [income |-> 0, expense |-> 0])
             g1 == IF e.type = "income"
                   THEN [g0 EXCEPT ![k].income = NumberOrZero(e.amount)]
                   ELSE [g0 EXCEPT ![k].expense = NumberOrZero(e.amount)]
         IN GroupEntriesOverwrite(Tail(xs), per, offset, g1)

\* The forEach that fills groups: a map from key to {income, expense}
RECURSIVE GroupEntries(_, _, _, _)
GroupEntries(xs, per, offset, groups) ==
    IF xs = <<>> THEN groups
    ELSE LET e == Head(xs)
             k == groupKey(per, offset, e.date)
             g0 == IF k \in DOMAIN groups THEN groups
                   ELSE groups @@ (k :> [income |-> 0, expense |-> 0])
             g1 == IF e.type = "income"
                   THEN [g0 EXCEPT ![k].income = @ + NumberOrZero(e.amount)]
                   ELSE [g0 EXCEPT ![k].expense = @ + NumberOrZero(e.amount)]
         IN GroupEntries(Tail(xs), per, offset, g1)

EmptyGroups == [k \in {} |-> [income |-> 0, expense |-> 0]]

\* SortKeys with the comparison reversed
RECURSIVE SortKeysDescending(_)
SortKeysDescending(ks) ==
    IF ks = {} THEN <<>>
    ELSE LET most == CHOOSE k \in ks : \A o \in ks : localeCompare(k, o) >= 0
         IN <<most>> \o SortKeysDescending(ks \ {most})

\* Object.keys(groups).sort(): the keys in ascending code-unit order
RECURSIVE SortKeys(_)
SortKeys(ks) ==
    IF ks = {} THEN <<>>
    ELSE LET least == CHOOSE k \in ks : \A o \in ks : localeCompare(k, o) <= 0
         IN <<least>> \o SortKeys(ks \ {least})

\* plans.find((p) => p.month === k): the index of the first match, 0 if none
FindPlan(pls, k) ==
    IF \E i \in 1..Len(pls) : pls[i].month = k
    THEN CHOOSE i \in 1..Len(pls) :
            pls[i].month = k /\ \A j \in 1..(i - 1) : pls[j].month # k
    ELSE 0

\* PlanBalance that looks the plan up by the month of the key
PlanBalanceByMonthOfKey(pls, k) ==
    IF FindPlan(pls, parseMonth(k)) # 0
    THEN NumberOrNull(pls[FindPlan(pls, parseMonth(k))].targetBalance)
    ELSE Null

\* plan ? Number(plan.targetBalance) || null : null
PlanBalance(pls, k) ==
    IF FindPlan(pls, k) # 0 THEN NumberOrNull(pls[FindPlan(pls, k)].targetBalance)
    ELSE Null

\* SeriesRows with every row starting again from the initial balance
RECURSIVE SeriesRowsNoCarry(_, _, _, _)
SeriesRowsNoCarry(keys, groups, balance, pls) ==
    IF keys = <<>> THEN <<>>
    ELSE LET k == Head(keys)
             b == balance + groups[k].income - groups[k].expense
         IN <<[period |-> k, balance |-> b, income |-> groups[k].income,
               expense |-> groups[k].expense, planBalance |-> PlanBalance(pls, k)]>>
            \o SeriesRowsNoCarry(Tail(keys), groups, balance, pls)

\* keys.map(...) with the running balance
RECURSIVE SeriesRows(_, _, _, _)
SeriesRows(keys, groups, balance, pls) ==
    IF keys = <<>> THEN <<>>
    ELSE LET k == Head(keys)
             b == balance + groups[k].income - groups[k].expense
         IN <<[period |-> k, balance |-> b, income |-> groups[k].income,
               expense |-> groups[k].expense, planBalance |-> PlanBalance(pls, k)]>>
            \o SeriesRows(Tail(keys), groups, b, pls)

BalanceChartData(fl, per, ib, pls, offset) ==
    IF fl = <<>> THEN <<>>
    ELSE LET groups == GroupEntries(SortByDate(fl), per, offset, EmptyGroups)
         IN SeriesRows(SortKeys(DOMAIN groups), groups, NumberOrZero(ib), pls)

\* VarianceRow with each variance as planned minus actual
VarianceRowPlannedMinusActual(p, fl) ==
    LET monthEntries == SelectSeq(fl, LAMBDA e : parseMonth(e.date) = p.month)
        actualIncome == SumOfType(monthEntries, "income")
        actualExpense == SumOfType(monthEntries, "expense")
    IN [month |-> p.month,
        plannedIncome |-> NumberOrZero(p.plannedIncome),
        actualIncome |-> actualIncome,
        plannedExpense |-> NumberOrZero(p.plannedExpense),
        actualExpense |-> actualExpense,
        targetBalance |-> NumberOrZero(p.targetBalance),
        incomeVariance |-> NumberOrZero(p.plannedIncome) - actualIncome,
        expenseVariance |-> NumberOrZero(p.plannedExpense) - actualExpense]

VarianceRow(p, fl) ==
    LET monthEntries == SelectSeq(fl, LAMBDA e : parseMonth(e.date) = p.month)
        actualIncome == SumOfType(monthEntries, "income")
        actualExpense == SumOfType(monthEntries, "expense")
    IN [month |-> p.month,
        plannedIncome |-> NumberOrZero(p.plannedIncome),
        actualIncome |-> actualIncome,
        plannedExpense |-> NumberOrZero(p.plannedExpense),
        actualExpense |-> actualExpense,
        targetBalance |-> NumberOrZero(p.targetBalance),
        incomeVariance |-> actualIncome - NumberOrZero(p.plannedIncome),
        expenseVariance |-> actualExpense - NumberOrZero(p.plannedExpense)]

\* rows.sort((a, b) => a.month.localeCompare(b.month)): a stable sort
RECURSIVE InsertByMonth(_, _)
InsertByMonth(sorted, r) ==
    IF sorted = <<>> THEN <<r>>
    ELSE IF localeCompare(r.month, Head(sorted).month) < 0 THEN <<r>> \o sorted
    ELSE <<Head(sorted)>> \o InsertByMonth(Tail(sorted), r)

\* SortByMonth that leaves the rows in the order of the plans
SortByMonthOmitted(xs) == xs

RECURSIVE SortByMonth(_)
SortByMonth(xs) ==
    IF xs = <<>> THEN <<>>
    ELSE InsertByMonth(SortByMonth(SubSeq(xs, 1, Len(xs) - 1)), xs[Len(xs)])

PlanVsActual(pls, fl) ==
    IF pls = <<>> THEN <<>>
    ELSE SortByMonth([i \in 1..Len(pls) |-> VarianceRow(pls[i], fl)])

filled == Filled(entries)
totalIncome == SumOfType(filled, "income")
totalExpense == SumOfType(filled, "expense")
currentBalance == NumberOrZero(initialBalance) + totalIncome - totalExpense
balanceChartData == BalanceChartData(filled, period, initialBalance, plans, tz)
planVsActual == PlanVsActual(plans, filled)

-----------------------------------------------------------------------------
(* Initial state: the first render of App *)

Init ==
    /\ setupDone = FALSE
    /\ initialBalance = <<>>
    /\ initialDate = Today
    /\ entries = <<>>
    /\ formData = emptyEntry(1)
    /\ period = "month"
    /\ toast = NoToast
    /\ plans = <<>>
    /\ planForm = emptyPlan(2)
    /\ nextUid = 3
    /\ tz \in TimezoneOffsets
    /\ view = "form"
    /\ activeTab = "entry"
    /\ receiptPreview = NoReceipt
    /\ reads = {}
    /\ rendered = NotRendered

-----------------------------------------------------------------------------
(* Event handlers *)

setupVars == <<setupDone, initialBalance, initialDate>>
entryVars == <<entries, formData>>
planVars == <<plans, planForm>>
uiVars == <<view, activeTab, receiptPreview>>

\* The balance input of the setup screen (line 210)
SetInitialBalance(v) ==
    /\ ~setupDone
    /\ initialBalance' = v
    /\ UNCHANGED <<setupDone, initialDate, entryVars, period, toast, planVars,
                   nextUid, tz, uiVars, reads, rendered>>

\* handleSetup without the check of the balance
handleSetupUnchecked ==
    /\ ~setupDone
    /\ setupDone' = TRUE
    /\ UNCHANGED <<initialBalance, initialDate, entryVars, period, toast, planVars,
                   nextUid, tz, uiVars, reads, rendered>>

handleSetup ==
    /\ ~setupDone
    /\ IF ~Truthy(initialBalance)
       THEN toast' = "setupWarn" /\ UNCHANGED setupDone
       ELSE setupDone' = TRUE /\ UNCHANGED toast
    /\ UNCHANGED <<initialBalance, initialDate, entryVars, period, planVars,
                   nextUid, tz, uiVars, reads, rendered>>

\* The timer showToast starts: setToast(null) after 2500 ms
ClearToast ==
    /\ toast # NoToast
    /\ toast' = NoToast
    /\ UNCHANGED <<setupVars, entryVars, period, planVars, nextUid, tz,
                   uiVars, reads, rendered>>

handleFormChange(f, v) ==
    /\ setupDone
    /\ formData' = [formData EXCEPT ![f] = v]
    /\ UNCHANGED <<setupVars, entries, period, toast, planVars, nextUid, tz,
                   uiVars, reads, rendered>>

\* addFromForm that checks the amount only
addFromFormAmountOnly ==
    /\ setupDone
    /\ IF ~Truthy(formData.amount)
       THEN /\ toast' = "formWarn"
            /\ UNCHANGED <<entryVars, nextUid>>
       ELSE /\ Len(entries) < MaxEntries
            /\ nextUid <= MaxUid
            /\ entries' = Append(entries, [formData EXCEPT !.id = nextUid])
            /\ formData' = emptyEntry(nextUid + 1)
            /\ nextUid' = nextUid + 2
            /\ toast' = "added"
    /\ UNCHANGED <<setupVars, period, planVars, tz, uiVars, reads, rendered>>

addFromForm ==
    /\ setupDone
    /\ IF ~Truthy(formData.amount) \/ ~Truthy(formData.description)
       THEN /\ toast' = "formWarn"
            /\ UNCHANGED <<entryVars, nextUid>>
       ELSE /\ Len(entries) < MaxEntries
            /\ nextUid <= MaxUid
            /\ entries' = Append(entries, [formData EXCEPT !.id = nextUid])
            /\ formData' = emptyEntry(nextUid + 1)
            /\ nextUid' = nextUid + 2
            /\ toast' = "added"
    /\ UNCHANGED <<setupVars, period, planVars, tz, uiVars, reads, rendered>>

updateRow(id, f, v) ==
    /\ setupDone
    /\ \E i \in 1..Len(entries) : entries[i].id = id
    /\ entries' = [i \in 1..Len(entries) |->
                     IF entries[i].id = id THEN [entries[i] EXCEPT ![f] = v]
                     ELSE entries[i]]
    /\ UNCHANGED <<setupVars, formData, period, toast, planVars, nextUid, tz,
                   uiVars, reads, rendered>>

\* [...p, emptyEntry()]
WithBlankRow(es, id) == Append(es, emptyEntry(id))

addTableRow ==
    /\ setupDone
    /\ Len(entries) < MaxEntries
    /\ nextUid <= MaxUid
    /\ entries' = WithBlankRow(entries, nextUid)
    /\ nextUid' = nextUid + 1
    /\ UNCHANGED <<setupVars, formData, period, toast, planVars, tz, uiVars,
                   reads, rendered>>

\* deleteRow that also drops the plans of the months of the rows it removes
deleteRowWithPlans(id) ==
    /\ setupDone
    /\ \E i \in 1..Len(entries) : entries[i].id = id
    /\ entries' = SelectSeq(entries, LAMBDA r : r.id # id)
    /\ plans' = SelectSeq(plans, LAMBDA p :
                    \A i \in 1..Len(entries) :
                       entries[i].id = id => parseMonth(entries[i].date) # p.month)
    /\ UNCHANGED <<setupVars, formData, period, toast, planForm, nextUid, tz,
                   uiVars, reads, rendered>>

deleteRow(id) ==
    /\ setupDone
    /\ \E i \in 1..Len(entries) : entries[i].id = id
    /\ entries' = SelectSeq(entries, LAMBDA r : r.id # id)
    /\ UNCHANGED <<setupVars, formData, period, toast, planVars, nextUid, tz,
                   uiVars, reads, rendered>>

\* The period buttons of the chart tab (line 431)
SetPeriod(p) ==
    /\ setupDone
    /\ period' = p
    /\ UNCHANGED <<setupVars, entryVars, toast, planVars, nextUid, tz, uiVars,
                   reads, rendered>>

\* The inputs of the plan form (lines 556-572)
SetPlanForm(f, v) ==
    /\ setupDone
    /\ planForm' = [planForm EXCEPT ![f] = v]
    /\ UNCHANGED <<setupVars, entryVars, period, toast, plans, nextUid, tz,
                   uiVars, reads, rendered>>

\* findIndex that compares the plan's id with the form's
ExistingPlanById ==
    IF \E i \in 1..Len(plans) : plans[i].id = planForm.id
    THEN CHOOSE i \in 1..Len(plans) : plans[i].id = planForm.id
    ELSE 0

\* plans.findIndex((p) => p.month === planForm.month), counted from 1; 0 if none
ExistingPlan == FindPlan(plans, planForm.month)

\* ReplacePlan that stores the form as it is, its id included
ReplacePlanWithFormId(pls, existing, form) ==
    [i \in 1..Len(pls) |-> IF i = existing THEN form ELSE pls[i]]

\* p.map((pl, i) => i === existing ? { ...planForm, id: pl.id } : pl)
ReplacePlan(pls, existing, form) ==
    [i \in 1..Len(pls) |->
        IF i = existing THEN [form EXCEPT !.id = pls[i].id] ELSE pls[i]]

\* PlanFormIsEmpty that lets every form through
PlanFormIsEmptyUnchecked == FALSE

PlanFormIsEmpty ==
    /\ ~Truthy(planForm.targetBalance)
    /\ ~Truthy(planForm.plannedIncome)
    /\ ~Truthy(planForm.plannedExpense)

addPlan ==
    /\ setupDone
    /\ IF PlanFormIsEmpty
       THEN /\ toast' = "planWarn"
            /\ UNCHANGED <<planVars, nextUid>>
       ELSE /\ nextUid <= MaxPlanUid
            /\ IF ExistingPlan # 0
               THEN /\ plans' = ReplacePlan(plans, ExistingPlan, planForm)
                    /\ toast' = "planUpdated"
               ELSE /\ Len(plans) < MaxPlans
                    /\ plans' = Append(plans, planForm)
                    /\ toast' = "planAdded"
            /\ planForm' = emptyPlan(nextUid)
            /\ nextUid' = nextUid + 1
    /\ UNCHANGED <<setupVars, entryVars, period, tz, uiVars, reads, rendered>>

\* The delete button of a plan row (line 599)
DeletePlan(id) ==
    /\ setupDone
    /\ \E i \in 1..Len(plans) : plans[i].id = id
    /\ plans' = SelectSeq(plans, LAMBDA x : x.id # id)
    /\ UNCHANGED <<setupVars, entryVars, period, toast, planForm, nextUid, tz,
                   uiVars, reads, rendered>>

\* The date input of the setup screen (line 206)
SetInitialDate(v) ==
    /\ ~setupDone
    /\ initialDate' = v
    /\ UNCHANGED <<setupDone, initialBalance, entryVars, period, toast, planVars,
                   nextUid, tz, uiVars, reads, rendered>>

\* The form/table toggle of the entry tab (lines 283-284)
SetView(v) ==
    /\ setupDone
    /\ view' = v
    /\ UNCHANGED <<setupVars, entryVars, period, toast, planVars, nextUid, tz,
                   activeTab, receiptPreview, reads, rendered>>

\* The navigation buttons (line 236)
SetActiveTab(t) ==
    /\ setupDone
    /\ activeTab' = t
    /\ UNCHANGED <<setupVars, entryVars, period, toast, planVars, nextUid, tz,
                   view, receiptPreview, reads, rendered>>

\* A receipt thumbnail or icon (lines 329, 355, 402) and the modal's close
\* buttons (lines 623-625)
SetReceiptPreview(r) ==
    /\ setupDone
    /\ receiptPreview' = r
    /\ UNCHANGED <<setupVars, entryVars, period, toast, planVars, nextUid, tz,
                   view, activeTab, reads, rendered>>

\* handleReceiptUpload starts a FileReader; what its onload closure holds is
\* file, target and id (id is undefined, here 0, for the quick form). draft
\* is not held by the code: it records the id of the form that was being
\* composed when the file was chosen, for stating properties.
handleReceiptUpload(file, target, id) ==
    /\ setupDone
    /\ IF file = NoFile
       THEN UNCHANGED reads
       ELSE /\ Cardinality(reads) < MaxReads
            /\ reads' = reads \cup
                  {[file |-> file, target |-> target, id |-> id,
                    draft |-> IF target = "form" THEN formData.id ELSE 0]}
    /\ UNCHANGED <<setupVars, entryVars, period, toast, planVars, nextUid, tz,
                   uiVars, rendered>>

\* AttachToRow that adds a row for the id when no row has it
AttachToRowOrAppend(es, id, file) ==
    IF \E i \in 1..Len(es) : es[i].id = id
    THEN [i \in 1..Len(es) |->
            IF es[i].id = id THEN [es[i] EXCEPT !.receipt = file, !.receiptName = file]
            ELSE es[i]]
    ELSE Append(es, [emptyEntry(id) EXCEPT !.receipt = file, !.receiptName = file])

\* p.map((r) => r.id === id ? { ...r, receipt, receiptName } : r)
AttachToRow(es, id, file) ==
    [i \in 1..Len(es) |->
        IF es[i].id = id THEN [es[i] EXCEPT !.receipt = file, !.receiptName = file]
        ELSE es[i]]

\* reader.onload of a started read: it runs whenever the read completes.
ReceiptLoaded(r) ==
    /\ r \in reads
    /\ reads' = reads \ {r}
    /\ IF r.target = "form"
       THEN /\ formData' = [formData EXCEPT !.receipt = r.file, !.receiptName = r.file]
            /\ UNCHANGED entries
       ELSE /\ entries' = AttachToRow(entries, r.id, r.file)
            /\ UNCHANGED formData
    /\ UNCHANGED <<setupVars, period, toast, planVars, nextUid, tz, uiVars,
                   rendered>>

\* The three computations of a render, each recorded when it has run. An
\* array that a computation sorts is sorted in place (Array.prototype.sort),
\* so each computation also says what it leaves in entries and in plans.

\* The totals read entries through filter and reduce, which write nothing.
RenderTotals ==
    /\ setupDone
    /\ rendered' = [rendered EXCEPT
          !.done = @ \cup {"totals"},
          !.totals = [totalIncome |-> totalIncome, totalExpense |-> totalExpense,
                      currentBalance |-> currentBalance]]
    /\ UNCHANGED <<setupVars, entryVars, period, toast, planVars, nextUid, tz,
                   uiVars, reads>>

\* EntriesAfterSeries had filled.sort(...) been called on entries itself
EntriesAfterSeriesSortedInPlace(es) == SortByDate(es)

\* entries after balanceChartData: .sort is called on the copy [...filled],
\* and filled is itself the new array entries.filter returned (lines 140, 148)
EntriesAfterSeries(es) == es

RenderSeries ==
    /\ setupDone
    /\ rendered' = [rendered EXCEPT !.done = @ \cup {"series"},
                                    !.series = balanceChartData]
    /\ entries' = EntriesAfterSeries(entries)
    /\ UNCHANGED <<setupVars, formData, period, toast, planVars, nextUid, tz,
                   uiVars, reads>>

\* PlansAfterVariance had .sort(...) been called on plans itself
PlansAfterVarianceSortedInPlace(pls) == SortByMonth(pls)

\* plans after planVsActual: .sort is called on the array that plans.map
\* returned (lines 175, 189)
PlansAfterVariance(pls) == pls

RenderVariance ==
    /\ setupDone
    /\ rendered' = [rendered EXCEPT !.done = @ \cup {"variance"},
                                    !.variance = planVsActual]
    /\ plans' = PlansAfterVariance(plans)
    /\ UNCHANGED <<setupVars, entryVars, period, toast, planForm, nextUid, tz,
                   uiVars, reads>>

EntryIds == {entries[i].id : i \in 1..Len(entries)}
PlanIds == {plans[i].id : i \in 1..Len(plans)}

-----------------------------------------------------------------------------
(* Specifications *)

Setup ==
    \/ \E v \in BalanceInputs : SetInitialBalance(v)
    \/ handleSetup

\* The ledger: the quick form, the table and the setup screen.
NextEntries ==
    \/ Setup
    \/ \E v \in DescriptionInputs : handleFormChange("description", v)
    \/ \E v \in {<<>>, Amount5000} : handleFormChange("amount", v)
    \/ addFromForm
    \/ addTableRow
    \/ \E id \in EntryIds, v \in {Date0105, Date0210} : updateRow(id, "date", v)
    \/ \E id \in EntryIds, v \in TYPES : updateRow(id, "type", v)
    \/ \E id \in EntryIds, v \in {<<>>, Amount1000} : updateRow(id, "amount", v)
    \/ \E id \in EntryIds : deleteRow(id)
    \/ ClearToast

SpecEntries == Init /\ [][NextEntries]_vars

\* The table view alone: blank rows, cell edits and row deletions.
NextTable ==
    \/ Setup
    \/ addTableRow
    \/ \E id \in EntryIds, v \in {Date0105, Date0210} : updateRow(id, "date", v)
    \/ \E id \in EntryIds, v \in TYPES : updateRow(id, "type", v)
    \/ \E id \in EntryIds, v \in DescriptionInputs : updateRow(id, "description", v)
    \/ \E id \in EntryIds, v \in {<<>>, Amount1000} : updateRow(id, "amount", v)
    \/ \E id \in EntryIds : deleteRow(id)
    \/ ClearToast

SpecTable == Init /\ [][NextTable]_vars

\* The plans: the plan form, the plan list and the setup screen.
NextPlans ==
    \/ Setup
    \/ \E v \in MonthInputs : SetPlanForm("month", v)
    \/ \E v \in PlanValueInputs : SetPlanForm("targetBalance", v)
    \/ \E v \in {<<>>, Amount5000} : SetPlanForm("plannedIncome", v)
    \/ addPlan
    \/ \E id \in PlanIds : DeletePlan(id)
    \/ ClearToast

SpecPlans == Init /\ [][NextPlans]_vars

\* The table, the plan form and the period buttons together.
Next ==
    \/ Setup
    \/ addTableRow
    \/ \E id \in EntryIds, v \in {Date0105, Date0210} : updateRow(id, "date", v)
    \/ \E id \in EntryIds, v \in {<<>>, Amount1000} : updateRow(id, "amount", v)
    \/ \E id \in EntryIds : deleteRow(id)
    \/ \E p \in PERIODS : SetPeriod(p)
    \/ \E v \in MonthInputs : SetPlanForm("month", v)
    \/ \E v \in PlanValueInputs : SetPlanForm("targetBalance", v)
    \/ addPlan
    \/ \E id \in PlanIds : DeletePlan(id)
    \/ ClearToast

Spec == Init /\ [][Next]_vars

\* The balance series as a function of the entries, the granularity and the
\* initial balance: every ledger of up to MaxEntries rows that the table can
\* hold after setup, then the period buttons and the delete buttons.
EntryKinds ==
    {[type |-> "expense", description |-> Lunch, amount |-> Amount1000],
     [type |-> "income", description |-> Lunch, amount |-> Amount5000],
     [type |-> "expense", description |-> Lunch, amount |-> <<>>],
     [type |-> "income", description |-> <<>>, amount |-> Amount1000],
     [type |-> "expense", description |-> <<>>, amount |-> <<>>]}

EntryValues ==
    {[emptyEntry(0) EXCEPT !.date = d, !.type = k.type,
                           !.description = k.description, !.amount = k.amount] :
        d \in DateInputs, k \in EntryKinds}

Ledger(f) == [i \in 1..Len(f) |-> [f[i] EXCEPT !.id = 2 + i]]

InitSeries ==
    /\ setupDone = TRUE
    /\ initialBalance \in BalanceInputs \ {<<>>}
    /\ initialDate = Today
    /\ \E n \in 0..MaxEntries : \E f \in [1..n -> EntryValues] :
          /\ entries = Ledger(f)
          /\ nextUid = 3 + n
    /\ formData = emptyEntry(1)
    /\ period = "month"
    /\ toast = NoToast
    /\ plans = <<>>
    /\ planForm = emptyPlan(2)
    /\ tz \in TimezoneOffsets
    /\ view = "form"
    /\ activeTab = "entry"
    /\ receiptPreview = NoReceipt
    /\ reads = {}
    /\ rendered = NotRendered

NextSeries ==
    \/ \E p \in PERIODS : SetPeriod(p)
    \/ \E id \in EntryIds : deleteRow(id)

SpecSeries == InitSeries /\ [][NextSeries]_vars

\* The variance rows and the plan balances as functions of the entries and
\* the plans: every ledger of up to MaxEntries rows and every plan list of up
\* to MaxPlans plans that the table and the plan form can have produced after
\* setup (the rows first, then the plans), then the plans' delete buttons.
ChartEntryValues ==
    {[emptyEntry(0) EXCEPT !.date = d, !.type = k.type,
                           !.description = k.description, !.amount = k.amount] :
        d \in {Date0105, Date0210},
        k \in {[type |-> "expense", description |-> Lunch, amount |-> Amount1000],
               [type |-> "income", description |-> Lunch, amount |-> Amount5000],
               [type |-> "expense", description |-> <<>>, amount |-> <<>>]}}

ChartPlanValues ==
    {[emptyPlan(0) EXCEPT !.month = m, !.targetBalance = k.targetBalance,
                          !.plannedIncome = k.plannedIncome,
                          !.plannedExpense = k.plannedExpense] :
        m \in {Month01, Month02, Month03},
        k \in {[targetBalance |-> Amount5000, plannedIncome |-> Amount5000,
                plannedExpense |-> Amount1000],
               [targetBalance |-> AmountZero, plannedIncome |-> <<>>,
                plannedExpense |-> Amount1000],
               [targetBalance |-> <<>>, plannedIncome |-> Amount5000,
                plannedExpense |-> <<>>]}}

\* The ids addPlan gives n-th plan when the ledger got its rows first.
PlanList(g, rows) ==
    [j \in 1..Len(g) |-> [g[j] EXCEPT !.id = IF j = 1 THEN 2 ELSE rows + 1 + j]]

InitChart ==
    /\ setupDone = TRUE
    /\ initialBalance = Amount10000
    /\ initialDate = Today
    /\ \E n \in 0..MaxEntries, m \in 0..MaxPlans :
          \E f \in [1..n -> ChartEntryValues], g \in [1..m -> ChartPlanValues] :
             /\ \A i, j \in 1..m : g[i].month = g[j].month => i = j
             /\ entries = Ledger(f)
             /\ plans = PlanList(g, n)
             /\ planForm = emptyPlan(IF m = 0 THEN 2 ELSE n + 2 + m)
             /\ nextUid = 3 + n + m
    /\ formData = emptyEntry(1)
    /\ period = "month"
    /\ toast = NoToast
    /\ tz \in TimezoneOffsets
    /\ view = "form"
    /\ activeTab = "entry"
    /\ receiptPreview = NoReceipt
    /\ reads = {}
    /\ rendered = NotRendered

NextChart == \E id \in PlanIds : DeletePlan(id)

SpecChart == InitChart /\ [][NextChart]_vars

\* The rows that show the upload control: those without a receipt (line 401)
RowsWithoutReceipt ==
    {entries[i].id : i \in {j \in 1..Len(entries) : entries[j].receipt = NoReceipt}}

\* The receipts that can be shown: the form's and the rows'.
ShownReceipts ==
    ({formData.receipt} \cup {entries[i].receipt : i \in 1..Len(entries)}) \ {NoReceipt}

\* A whole session: the setup screen, then the handlers of the entry tab,
\* the plan tab, the chart's period buttons, the navigation and the receipt
\* icons of the entry tab.
NextSetup ==
    \/ \E v \in {<<>>, Amount10000} : SetInitialBalance(v)
    \/ SetInitialDate(Date0210)
    \/ handleSetup
    \/ handleFormChange("description", Lunch)
    \/ handleFormChange("amount", Amount5000)
    \/ addFromForm
    \/ addTableRow
    \/ \E id \in EntryIds : updateRow(id, "amount", Amount1000)
    \/ \E id \in EntryIds : deleteRow(id)
    \/ \E id \in RowsWithoutReceipt : handleReceiptUpload("receiptB", "table", id)
    \/ \E r \in reads : ReceiptLoaded(r)
    \/ SetPlanForm("plannedIncome", Amount5000)
    \/ addPlan
    \/ \E id \in PlanIds : DeletePlan(id)
    \/ SetPeriod("week")
    \/ SetActiveTab("plan")
    \/ \E r \in ShownReceipts : activeTab = "entry" /\ SetReceiptPreview(r)

SpecSetup == Init /\ [][NextSetup]_vars

\* The computations of a render, any number of times and in any order, on
\* every ledger of up to MaxEntries rows and every plan list of up to
\* MaxPlans plans of the values below, under every granularity.
RenderEntryValues ==
    {[emptyEntry(0) EXCEPT !.date = d, !.type = k.type,
                           !.description = Lunch, !.amount = k.amount] :
        d \in {Date0105, Date0210},
        k \in {[type |-> "expense", amount |-> Amount1000],
               [type |-> "income", amount |-> Amount5000]}}

RenderPlanValues ==
    {[emptyPlan(0) EXCEPT !.month = m, !.targetBalance = k.targetBalance,
                          !.plannedIncome = k.plannedIncome] :
        m \in {Month01, Month02},
        k \in {[targetBalance |-> Amount5000, plannedIncome |-> <<>>],
               [targetBalance |-> <<>>, plannedIncome |-> Amount5000]}}

InitRender ==
    /\ setupDone = TRUE
    /\ initialBalance = Amount10000
    /\ initialDate = Today
    /\ \E n \in 0..MaxEntries, m \in 0..MaxPlans :
          \E f \in [1..n -> RenderEntryValues], g \in [1..m -> RenderPlanValues] :
             /\ \A i, j \in 1..m : g[i].month = g[j].month => i = j
             /\ entries = Ledger(f)
             /\ plans = PlanList(g, n)
             /\ planForm = emptyPlan(IF m = 0 THEN 2 ELSE n + 2 + m)
             /\ nextUid = 3 + n + m
    /\ formData = emptyEntry(1)
    /\ period \in PERIODS
    /\ toast = NoToast
    /\ tz \in TimezoneOffsets
    /\ view = "table"
    /\ activeTab = "dashboard"
    /\ receiptPreview = NoReceipt
    /\ reads = {}
    /\ rendered = NotRendered

NextRender ==
    \/ RenderTotals
    \/ RenderSeries
    \/ RenderVariance

SpecRender == InitRender /\ [][NextRender]_vars

\* The entry tab and the plan tab together: the quick form, the table, the
\* plan form and the plan list.
NextTabs ==
    \/ \E v \in {<<>>, Amount10000} : SetInitialBalance(v)
    \/ handleSetup
    \/ handleFormChange("description", Lunch)
    \/ handleFormChange("amount", Amount5000)
    \/ addFromForm
    \/ addTableRow
    \/ \E id \in EntryIds : updateRow(id, "date", Date0210)
    \/ \E id \in EntryIds : updateRow(id, "amount", Amount1000)
    \/ \E id \in EntryIds : deleteRow(id)
    \/ \E v \in MonthInputs : SetPlanForm("month", v)
    \/ SetPlanForm("plannedIncome", Amount5000)
    \/ addPlan
    \/ \E id \in PlanIds : DeletePlan(id)

SpecTabs == Init /\ [][NextTabs]_vars

\* Receipts: files chosen in the quick form and in table rows, the reads
\* completing at any later time, submissions and deletions in between.
NextReceipts ==
    \/ SetInitialBalance(Amount10000)
    \/ handleSetup
    \/ handleFormChange("description", Lunch)
    \/ handleFormChange("amount", Amount5000)
    \/ addFromForm
    \/ addTableRow
    \/ \E id \in EntryIds : deleteRow(id)
    \/ \E file \in Files \cup {NoFile} : handleReceiptUpload(file, "form", 0)
    \/ \E id \in RowsWithoutReceipt : handleReceiptUpload("receiptB", "table", id)
    \/ \E r \in reads : ReceiptLoaded(r)
    \/ \E v \in Views : SetView(v)

SpecReceipts == Init /\ [][NextReceipts]_vars

\* The amount inputs with signed numerals: the quick form and the table.
NextSigned ==
    \/ Setup
    \/ handleFormChange("description", Lunch)
    \/ \E v \in {AmountMinus300, Amount5000} : handleFormChange("amount", v)
    \/ \E v \in TYPES : handleFormChange("type", v)
    \/ addFromForm
    \/ addTableRow
    \/ \E id \in EntryIds, v \in {AmountMinus300, Amount1000} : updateRow(id, "amount", v)
    \/ ClearToast

SpecSigned == Init /\ [][NextSigned]_vars

\* The period keys as functions of the date and of the browser's time zone:
\* two table rows dated on consecutive days, the later day inserted first,
\* for every day of the years below and browsers west of, at and east of
\* UTC (New York winter time, UTC, Tokyo); then the period buttons.
Years == {2000} \cup (2020..2025)

BrowserOffsets == {0 - 300, 0, 540}

DaysInMonth(y, m) ==
    IF m = 2 THEN (IF IsLeap(y) THEN 29 ELSE 28)
    ELSE IF m \in {4, 6, 9, 11} THEN 30 ELSE 31

TwoDigits(n) == <<DigitChar(n \div 10), DigitChar(n % 10)>>

\* The value of a date input: YYYY-MM-DD
MakeDate(y, m, d) ==
    String(y) \o <<"-">> \o TwoDigits(m) \o <<"-">> \o TwoDigits(d)

NextDay(date) ==
    LET y == DateYear(date)
        m == DateMonth(date)
        d == DateDay(date)
    IN IF d < DaysInMonth(y, m) THEN MakeDate(y, m, d + 1)
       ELSE IF m < 12 THEN MakeDate(y, m + 1, 1)
       ELSE MakeDate(y + 1, 1, 1)

\* Every day of the years above
CalendarDates ==
    UNION {{MakeDate(ym[1], ym[2], d) : d \in 1..DaysInMonth(ym[1], ym[2])} :
              ym \in Years \X (1..12)}

DatedRow(id, d) ==
    [emptyEntry(id) EXCEPT !.date = d, !.description = Lunch, !.amount = Amount1000]

InitDates ==
    /\ setupDone = TRUE
    /\ initialBalance = Amount10000
    /\ initialDate = Today
    /\ \E d \in CalendarDates : entries = <<DatedRow(3, NextDay(d)), DatedRow(4, d)>>
    /\ nextUid = 5
    /\ formData = emptyEntry(1)
    /\ period = "month"
    /\ toast = NoToast
    /\ plans = <<>>
    /\ planForm = emptyPlan(2)
    /\ tz \in BrowserOffsets
    /\ view = "table"
    /\ activeTab = "entry"
    /\ receiptPreview = NoReceipt
    /\ reads = {}
    /\ rendered = NotRendered

NextDates == \E p \in PERIODS : SetPeriod(p)

SpecDates == InitDates /\ [][NextDates]_vars

\* The totals, the series and the variance rows as functions of the amount
\* texts: every ledger of up to MaxEntries rows and every plan list of up to
\* MaxPlans plans with empty, non-numeric and numeric texts in the number
\* fields, then the plans' delete buttons.
TextEntryValues ==
    {[emptyEntry(0) EXCEPT !.date = d, !.type = k.type,
                           !.description = k.description, !.amount = k.amount] :
        d \in {Date0105, Date0210},
        k \in {[type |-> "expense", description |-> Lunch, amount |-> <<>>],
               [type |-> "income", description |-> Lunch, amount |-> Amount12a],
               [type |-> "expense", description |-> <<>>, amount |-> Amount12a],
               [type |-> "income", description |-> Lunch, amount |-> Amount5000],
               [type |-> "expense", description |-> Lunch, amount |-> Amount1000]}}

TextPlanValues ==
    {[emptyPlan(0) EXCEPT !.month = m, !.targetBalance = k.targetBalance,
                          !.plannedIncome = k.plannedIncome,
                          !.plannedExpense = k.plannedExpense] :
        m \in {Month01, Month02},
        k \in {[targetBalance |-> <<>>, plannedIncome |-> Amount12a,
                plannedExpense |-> Amount1000],
               [targetBalance |-> Amount12a, plannedIncome |-> Amount5000,
                plannedExpense |-> <<>>]}}

InitAmounts ==
    /\ setupDone = TRUE
    /\ initialBalance = Amount10000
    /\ initialDate = Today
    /\ \E n \in 0..MaxEntries, m \in 0..MaxPlans :
          \E f \in [1..n -> TextEntryValues], g \in [1..m -> TextPlanValues] :
             /\ \A i, j \in 1..m : g[i].month = g[j].month => i = j
             /\ entries = Ledger(f)
             /\ plans = PlanList(g, n)
             /\ planForm = emptyPlan(IF m = 0 THEN 2 ELSE n + 2 + m)
             /\ nextUid = 3 + n + m
    /\ formData = emptyEntry(1)
    /\ period = "month"
    /\ toast = NoToast
    /\ tz \in TimezoneOffsets
    /\ view = "table"
    /\ activeTab = "entry"
    /\ receiptPreview = NoReceipt
    /\ reads = {}
    /\ rendered = NotRendered

NextAmounts == \E id \in PlanIds : DeletePlan(id)

SpecAmounts == InitAmounts /\ [][NextAmounts]_vars

-----------------------------------------------------------------------------
(* What the claims are stated with *)

\* An entry that the aggregates count: description or amount not empty.
IsCounted(e) == e.description # <<>> \/ e.amount # <<>>

\* The indices of the counted entries of kind t whose date falls in period k.
CountedIn(es, per, offset, k, t) ==
    {i \in 1..Len(es) : /\ IsCounted(es[i])
                        /\ es[i].type = t
                        /\ groupKey(per, offset, es[i].date) = k}

RECURSIVE SumAmountsAt(_, _)
SumAmountsAt(es, idx) ==
    IF idx = {} THEN 0
    ELSE LET i == CHOOSE j \in idx : TRUE
         IN NumberOrZero(es[i].amount) + SumAmountsAt(es, idx \ {i})

\* The period keys of the counted entries.
PeriodKeys(es, per, offset) ==
    {groupKey(per, offset, es[i].date) : i \in {j \in 1..Len(es) : IsCounted(es[j])}}

\* The sum of (income - expense) over the first n rows.
RECURSIVE NetOfFirst(_, _)
NetOfFirst(rows, n) ==
    IF n = 0 THEN 0 ELSE NetOfFirst(rows, n - 1) + rows[n].income - rows[n].expense

\* es with the rows i and i + 1 exchanged.
SwapAt(es, i) ==
    [j \in 1..Len(es) |-> IF j = i THEN es[i + 1] ELSE IF j = i + 1 THEN es[i] ELSE es[j]]

\* es without its row i.
RemoveAt(es, i) == SubSeq(es, 1, i - 1) \o SubSeq(es, i + 1, Len(es))

Last(rows) == rows[Len(rows)]

SeriesOf(es, per) == BalanceChartData(Filled(es), per, initialBalance, plans, tz)

-----------------------------------------------------------------------------
(* C1: the i-th row of the balance series is the period with the i-th      *)
(* smallest key; its income and expense are the sums of the amounts of the *)
(* counted income and expense entries dated in that period; its balance is *)
(* the initial balance plus the sum of (income - expense) over the first i *)
(* rows; exchanging two neighbouring entries of the list changes no row.   *)
C1_RunningBalance ==
    \A rows \in {balanceChartData} : \A keys \in {PeriodKeys(entries, period, tz)} :
       /\ \A i \in 1..Len(rows) :
            /\ rows[i].period \in keys
            /\ Cardinality({k \in keys : localeCompare(k, rows[i].period) < 0}) = i - 1
            /\ rows[i].income =
                 SumAmountsAt(entries, CountedIn(entries, period, tz, rows[i].period, "income"))
            /\ rows[i].expense =
                 SumAmountsAt(entries, CountedIn(entries, period, tz, rows[i].period, "expense"))
            /\ rows[i].balance = NumberOrZero(initialBalance) + NetOfFirst(rows, i)
       /\ \A i \in 1..(Len(entries) - 1) :
            SeriesOf(SwapAt(entries, i), period) = rows

\* Two rows, fed by entries that were inserted latest date first.
C1_Witness ==
    /\ Len(entries) = 2
    /\ localeCompare(entries[2].date, entries[1].date) < 0
    /\ Len(balanceChartData) = 2
    /\ balanceChartData[1].expense = 1000
    /\ balanceChartData[2].income = 5000
    /\ balanceChartData[2].balance = NumberOrZero(initialBalance) + 4000

-----------------------------------------------------------------------------
(* C8: the balance series has exactly one row per distinct period key of   *)
(* the counted entries, none when no entry is counted, and the rows are in *)
(* strictly ascending order of period key.                                 *)
C8_OneRowPerPeriod ==
    \A rows \in {balanceChartData} : \A keys \in {PeriodKeys(entries, period, tz)} :
       /\ Len(rows) = Cardinality(keys)
       /\ {rows[i].period : i \in 1..Len(rows)} = keys
       /\ \A i \in 1..(Len(rows) - 1) :
            localeCompare(rows[i].period, rows[i + 1].period) < 0
       /\ (\A i \in 1..Len(entries) : ~IsCounted(entries[i])) => rows = <<>>

\* Two entries of the same week on different days, inserted latest first:
\* one row by week, two rows by day.
C8_Witness ==
    /\ Len(entries) = 2
    /\ IsCounted(entries[1]) /\ IsCounted(entries[2])
    /\ entries[1].date = Date0106 /\ entries[2].date = Date0105
    /\ \/ period = "day" /\ Len(balanceChartData) = 2
       \/ period = "week" /\ Len(balanceChartData) = 1

-----------------------------------------------------------------------------
(* C2: whenever at least one entry is counted, the balance of the last row *)
(* of the balance series equals currentBalance, for every granularity.     *)
C2_LastBalanceIsCurrent ==
    Len(filled) > 0 =>
        \A g \in PERIODS : Last(SeriesOf(entries, g)).balance = currentBalance

\* Two counted entries of one month, both income or both expense, after setup.
C2_Witness ==
    /\ Len(filled) = 2
    /\ filled[1].type = filled[2].type
    /\ NumberOrZero(filled[1].amount) # 0 /\ NumberOrZero(filled[2].amount) # 0
    /\ Len(SeriesOf(entries, "month")) = 1
    /\ NumberOrZero(initialBalance) # 0

-----------------------------------------------------------------------------
(* C3: a draft row (description and amount both empty) contributes to no   *)
(* summary total, no series row and no variance row, every other entry has *)
(* a row in the day series, and the list addTableRow produces (the entries *)
(* followed by a blank row) has the totals, the balance series and the     *)
(* variance rows of the entries as they were.                              *)

\* Plans to evaluate the variance rows against: one per month input.
ProbePlans ==
    <<[emptyPlan(0) EXCEPT !.month = Month01, !.plannedIncome = Amount5000],
      [emptyPlan(0) EXCEPT !.month = Month02, !.plannedExpense = Amount1000]>>

Aggregates(es) ==
    [totalIncome |-> SumOfType(Filled(es), "income"),
     totalExpense |-> SumOfType(Filled(es), "expense"),
     currentBalance |-> CurrentBalance(es, initialBalance),
     series |-> [g \in PERIODS |-> SeriesOf(es, g)],
     variance |-> PlanVsActual(ProbePlans, Filled(es)),
     planVsActual |-> PlanVsActual(plans, Filled(es))]

C3_DraftsNotCounted ==
    \A agg \in {Aggregates(entries)} :
        /\ \A i \in 1..Len(entries) :
              IF IsCounted(entries[i])
              THEN \E r \in 1..Len(agg.series["day"]) :
                      agg.series["day"][r].period = entries[i].date
              ELSE Aggregates(RemoveAt(entries, i)) = agg
        /\ Aggregates(WithBlankRow(entries, nextUid)) = agg

\* A blank row just added below a counted entry.
C3_Witness ==
    /\ Len(entries) = 2
    /\ IsCounted(entries[1])
    /\ NumberOrZero(entries[1].amount) # 0
    /\ entries[2] = emptyEntry(entries[2].id)
    /\ nextUid = entries[2].id + 1

-----------------------------------------------------------------------------
(* C6: the plans list holds at most one plan per month.                    *)
C6_OnePlanPerMonth ==
    \A i, j \in 1..Len(plans) : plans[i].month = plans[j].month => i = j

\* A submission for a month that had a plan: the list still has one plan.
C6_Witness ==
    /\ toast = "planUpdated"
    /\ Len(plans) = 1
    /\ plans[1].month = Month02

-----------------------------------------------------------------------------
(* C7: when addPlan is submitted for a month that already has a plan, the  *)
(* number of plans is unchanged, the plan of that month keeps its id and   *)
(* its position and takes the three values of the form, and every other    *)
(* plan is unchanged.                                                      *)
C7_UpsertInPlace ==
    [][(addPlan /\ ~PlanFormIsEmpty /\ ExistingPlan # 0) =>
          /\ Len(plans') = Len(plans)
          /\ \A i \in 1..Len(plans) :
                IF plans[i].month = planForm.month
                THEN /\ plans'[i].id = plans[i].id
                     /\ plans'[i].month = plans[i].month
                     /\ plans'[i].targetBalance = planForm.targetBalance
                     /\ plans'[i].plannedIncome = planForm.plannedIncome
                     /\ plans'[i].plannedExpense = planForm.plannedExpense
                ELSE plans'[i] = plans[i]]_vars

\* The first of two plans was just replaced by a submission for its month.
C7_Witness ==
    /\ toast = "planUpdated"
    /\ Len(plans) = 2
    /\ plans[1].id = 2
    /\ plans[1].targetBalance = Amount5000
    /\ plans[1].plannedIncome = <<>>
    /\ nextUid = 6

-----------------------------------------------------------------------------
(* C4: the variance output has exactly one row per plan (as many rows as   *)
(* plans, also for a plan whose month has no entry, none without plans),   *)
(* in ascending order of month.                                            *)
C4_OneRowPerPlan ==
    \A rows \in {planVsActual} :
       /\ Len(rows) = Len(plans)
       /\ \A i \in 1..Len(plans) :
             Cardinality({r \in 1..Len(rows) : rows[r].month = plans[i].month}) = 1
       /\ \A r \in 1..(Len(rows) - 1) :
             localeCompare(rows[r].month, rows[r + 1].month) <= 0
       /\ plans = <<>> => rows = <<>>

\* Two plans stored latest month first, the later month without any entry.
C4_Witness ==
    /\ Len(plans) = 2
    /\ plans[1].month = Month03 /\ plans[2].month = Month01
    /\ Len(filled) = 2
    /\ planVsActual[1].month = Month01 /\ planVsActual[2].month = Month03
    /\ planVsActual[2].actualIncome = 0 /\ planVsActual[2].actualExpense = 0

-----------------------------------------------------------------------------
(* C5: the variance row of a plan has the sums of the amounts of the       *)
(* counted income and expense entries dated in the plan's month as actual  *)
(* values, the plan's values (an empty one taken as zero) as planned       *)
(* values, actual minus planned as variances, and it is the same without   *)
(* any entry of another month.                                             *)
MonthOf(d) == SubSeq(d, 1, 7)

CountedInMonth(es, m, t) ==
    {i \in 1..Len(es) : IsCounted(es[i]) /\ es[i].type = t /\ MonthOf(es[i].date) = m}

PlannedValue(s) == IF s = <<>> THEN 0 ELSE Number(s).val

C5_VarianceRow ==
    \A rows \in {planVsActual} : \A i \in 1..Len(plans) :
       \E r \in 1..Len(rows) :
          /\ rows[r].month = plans[i].month
          /\ rows[r].actualIncome =
                SumAmountsAt(entries, CountedInMonth(entries, plans[i].month, "income"))
          /\ rows[r].actualExpense =
                SumAmountsAt(entries, CountedInMonth(entries, plans[i].month, "expense"))
          /\ rows[r].plannedIncome = PlannedValue(plans[i].plannedIncome)
          /\ rows[r].plannedExpense = PlannedValue(plans[i].plannedExpense)
          /\ rows[r].incomeVariance = rows[r].actualIncome - rows[r].plannedIncome
          /\ rows[r].expenseVariance = rows[r].actualExpense - rows[r].plannedExpense
          /\ \A e \in 1..Len(entries) :
                MonthOf(entries[e].date) # plans[i].month =>
                   VarianceRow(plans[i], Filled(RemoveAt(entries, e))) = rows[r]

\* A January plan with both planned values, a January expense and a
\* February income: the row shows the expense only.
C5_Witness ==
    /\ Len(plans) = 1 /\ plans[1].month = Month01
    /\ Len(entries) = 2
    /\ planVsActual[1].plannedIncome = 5000 /\ planVsActual[1].actualIncome = 0
    /\ planVsActual[1].plannedExpense = 1000 /\ planVsActual[1].actualExpense = 1000
    /\ planVsActual[1].incomeVariance = 0 - 5000
    /\ planVsActual[1].expenseVariance = 0
    /\ totalIncome = 5000

-----------------------------------------------------------------------------
(* C9: with valid dates and YYYY-MM plan months, every row of the day,     *)
(* week and year series has a null plan balance, whatever plans exist.     *)
C9_PlanBalanceOnlyByMonth ==
    \A g \in PERIODS \ {"month"} : \A rows \in {SeriesOf(entries, g)} :
       \A r \in 1..Len(rows) : rows[r].planBalance = Null

\* A plan with a target for the month of a counted entry: the month row has
\* the target, the day, week and year rows are there without it.
C9_Witness ==
    /\ \E i \in 1..Len(plans) :
          plans[i].month = Month01 /\ plans[i].targetBalance = Amount5000
    /\ \E r \in 1..Len(SeriesOf(entries, "month")) :
          SeriesOf(entries, "month")[r].planBalance = Num(5000)
    /\ \A g \in PERIODS : Len(SeriesOf(entries, g)) >= 1

-----------------------------------------------------------------------------
(* C10: under month granularity the plan balance of a row is the           *)
(* targetBalance of the plan of the row's month whenever that plan exists  *)
(* and its targetBalance is numeric, zero included, and null exactly when  *)
(* there is no such plan or its targetBalance is empty or not numeric.     *)
IsNumeric(s) == s # <<>> /\ ~Number(s).nan

C10_PlanBalanceIsTarget ==
    \A rows \in {SeriesOf(entries, "month")} : \A r \in 1..Len(rows) :
       LET i == FindPlan(plans, rows[r].period)
       IN IF i # 0 /\ IsNumeric(plans[i].targetBalance)
          THEN rows[r].planBalance = Num(Number(plans[i].targetBalance).val)
          ELSE rows[r].planBalance = Null

-----------------------------------------------------------------------------
(* C11: a counted entry whose amount is empty or not a numeral has the     *)
(* totals, the four series and the variance rows it would have with the    *)
(* amount "0": its period has a series row under every granularity, and    *)
(* the row's income and expense are the sums over the other entries of the *)
(* period. A plan value that is empty or not a numeral shows as planned 0  *)
(* and gives the variance rows the value "0" would give.                   *)
Unparsed(s) == s = <<>> \/ Number(s).nan

PlanFields == {"targetBalance", "plannedIncome", "plannedExpense"}

C11_UnparsedIsZero ==
    \A agg \in {Aggregates(entries)} :
       /\ \A i \in 1..Len(entries) :
             (IsCounted(entries[i]) /\ Unparsed(entries[i].amount)) =>
                /\ Aggregates([entries EXCEPT ![i].amount = AmountZero]) = agg
                /\ \A g \in PERIODS : \E r \in 1..Len(agg.series[g]) :
                      LET k == groupKey(g, tz, entries[i].date)
                          row == agg.series[g][r]
                      IN /\ row.period = k
                         /\ row.income =
                              SumAmountsAt(entries, CountedIn(entries, g, tz, k, "income") \ {i})
                         /\ row.expense =
                              SumAmountsAt(entries, CountedIn(entries, g, tz, k, "expense") \ {i})
       /\ \A j \in 1..Len(plans) : \A f \in PlanFields :
             Unparsed(plans[j][f]) =>
                /\ VarianceRow(plans[j], filled)[f] = 0
                /\ PlanVsActual([plans EXCEPT ![j][f] = AmountZero], filled)
                      = agg.planVsActual

\* An income entry with the amount "12a" next to an income of 5000 in the
\* same month, and a plan whose planned income is "12a".
C11_Witness ==
    /\ Len(entries) = 2
    /\ entries[1].amount = Amount12a /\ entries[1].type = "income"
    /\ entries[2].amount = Amount5000 /\ entries[2].type = "income"
    /\ Len(SeriesOf(entries, "month")) = 1
    /\ SeriesOf(entries, "month")[1].income = 5000
    /\ totalIncome = 5000
    /\ Len(plans) >= 1 /\ plans[1].plannedIncome = Amount12a
    /\ planVsActual[1].plannedIncome = 0

-----------------------------------------------------------------------------
(* C12: setupDone becomes true only by handleSetup with a balance entered  *)
(* (handleSetup with an empty balance leaves it false), and from then on   *)
(* every step keeps setupDone true and leaves initialBalance and           *)
(* initialDate as they are.                                                *)
C12_SetupOnce ==
    [][/\ (~setupDone /\ setupDone') => (handleSetup /\ initialBalance # <<>>)
       /\ (handleSetup /\ initialBalance = <<>>) => ~setupDone'
       /\ setupDone => /\ setupDone'
                       /\ initialBalance' = initialBalance
                       /\ initialDate' = initialDate]_vars

\* After setup with a date and a balance typed in: a row with a receipt, a
\* plan, the week chart and the plan tab have all been used.
C12_Witness ==
    /\ setupDone
    /\ initialBalance = Amount10000 /\ initialDate = Date0210
    /\ Len(entries) >= 1 /\ entries[1].receipt = "receiptB"
    /\ Len(plans) >= 1
    /\ period = "week"
    /\ activeTab = "plan"
    /\ receiptPreview = "receiptB"

-----------------------------------------------------------------------------
(* C13: the week key of every entry's date is the date's year, "-W" and    *)
(* the two-digit value ceil((daysSinceJan1 + weekdayOfJan1 + 1) / 7), with *)
(* daysSinceJan1 the whole days from January 1 of the date's year to the   *)
(* date and weekdayOfJan1 the weekday of that January 1 (0 = Sunday); the  *)
(* week series of the entries has these keys as its periods.               *)
WeekByFormula(d) ==
    LET n == (DayOfYear0(d) + Jan1Weekday(DateYear(d)) + 1 + 6) \div 7
    IN SubSeq(d, 1, 4) \o <<"-", "W">> \o (IF n < 10 THEN <<"0">> ELSE <<>>) \o String(n)

C13_WeekKeyFormula ==
    /\ \A i \in 1..Len(entries) :
          groupKey("week", tz, entries[i].date) = WeekByFormula(entries[i].date)
    /\ period = "week" =>
          {balanceChartData[r].period : r \in 1..Len(balanceChartData)}
             = {WeekByFormula(entries[i].date) : i \in 1..Len(entries)}

-----------------------------------------------------------------------------
(* C14: the amount of every stored entry is a non-negative number, and so  *)
(* are both summary totals and the income and expense of every row of      *)
(* every series.                                                           *)
C14_AmountsNonNegative ==
    /\ \A i \in 1..Len(entries) : NumberOrZero(entries[i].amount) >= 0
    /\ totalIncome >= 0
    /\ totalExpense >= 0
    /\ \A g \in PERIODS : \A rows \in {SeriesOf(entries, g)} :
          \A r \in 1..Len(rows) : rows[r].income >= 0 /\ rows[r].expense >= 0

-----------------------------------------------------------------------------
(* C15: computing the totals, the balance series or the variance rows, in  *)
(* any order and any number of times, leaves entries, plans (contents and  *)
(* order) and initialBalance as they were; every value recorded is the     *)
(* value the state gives, and a value that is computed again is the value  *)
(* recorded before.                                                        *)
Outputs ==
    [totals |-> [totalIncome |-> totalIncome, totalExpense |-> totalExpense,
                 currentBalance |-> currentBalance],
     series |-> balanceChartData,
     variance |-> planVsActual]

-----------------------------------------------------------------------------
(* C16: addFromForm, addTableRow and every step that changes the entries   *)
(* list (updateRow, deleteRow) leave the plans list as it is; addPlan and  *)
(* every step that changes the plans list (plan deletion) leave the        *)
(* entries list as it is. After a deleteRow every plan is still there, and *)
(* the variance row of a plan whose month has no counted entry left shows  *)
(* zero actual income and expense. After a plan deletion the other plans,  *)
(* the entries and the three summary totals are what they were.            *)
C16_EntriesAndPlansIndependent ==
    [][/\ (addFromForm \/ addTableRow \/ entries' # entries) => plans' = plans
       /\ (addPlan \/ plans' # plans) => entries' = entries
       /\ \A id \in EntryIds : deleteRow(id) =>
             \A rows \in {PlanVsActual(plans', Filled(entries'))} :
                \A i \in 1..Len(plans) :
                   /\ plans'[i] = plans[i]
                   /\ (CountedInMonth(entries', plans[i].month, "income")
                         \cup CountedInMonth(entries', plans[i].month, "expense") = {})
                      => \E r \in 1..Len(rows) :
                            /\ rows[r].month = plans[i].month
                            /\ rows[r].actualIncome = 0
                            /\ rows[r].actualExpense = 0
       /\ \A id \in PlanIds : DeletePlan(id) =>
             /\ plans' = SelectSeq(plans, LAMBDA p : p.id # id)
             /\ entries' = entries
             /\ SumOfType(Filled(entries'), "income") = totalIncome
             /\ SumOfType(Filled(entries'), "expense") = totalExpense
             /\ CurrentBalance(entries', initialBalance') = currentBalance]_vars

\* The quick form was submitted, a plan was added and every entry has been
\* deleted since: the plan is there and its row shows zero actuals.
C16_Witness ==
    /\ formData.id # 1
    /\ entries = <<>>
    /\ Len(plans) = 1
    /\ plans[1].plannedIncome = Amount5000
    /\ planVsActual[1].actualIncome = 0
    /\ planVsActual[1].incomeVariance = 0 - 5000

-----------------------------------------------------------------------------
(* C17: deleteRow(id) removes the one row with that id and keeps the other *)
(* rows and their order; an id that has been drawn and is not in the list  *)
(* is not in the list after any step (so a deleted row never comes back);  *)
(* the completion of a read that was started for a table row that has been *)
(* deleted since changes no entry.                                         *)
C17_DeleteIsPermanent ==
    [][/\ \A id \in EntryIds : deleteRow(id) =>
             \E i \in 1..Len(entries) :
                entries[i].id = id /\ entries' = RemoveAt(entries, i)
       /\ \A id \in 1..(nextUid - 1) :
             id \notin EntryIds => \A i \in 1..Len(entries') : entries'[i].id # id
       /\ \A r \in reads :
             (ReceiptLoaded(r) /\ r.target = "table" /\ r.id \notin EntryIds)
                => entries' = entries]_vars

\* A read started for a table row is still running, the row has been
\* deleted, and another row is in the list.
C17_Witness ==
    /\ \E r \in reads : r.target = "table" /\ r.id \notin EntryIds /\ r.id < nextUid
    /\ Len(entries) = 1

-----------------------------------------------------------------------------
(* C20: when the read of a file chosen in the quick form completes, the    *)
(* form is still the one that was being composed when the file was chosen  *)
(* (so the receipt goes into the entry submitted from that form and into   *)
(* no entry submitted later); when the read of a file chosen for a table   *)
(* row completes, only the row with that id changes.                       *)
C20_ReceiptStaysWithItsEntry ==
    [][\A r \in reads : ReceiptLoaded(r) =>
          IF r.target = "form"
          THEN formData.id = r.draft /\ entries' = entries
          ELSE /\ formData' = formData
               /\ Len(entries') = Len(entries)
               /\ \A i \in 1..Len(entries) :
                     entries'[i] # entries[i] => entries[i].id = r.id]_vars

-----------------------------------------------------------------------------
(* C18: for every granularity the period key of a day is less than or      *)
(* equal to the period key of the next day, in code-unit order (and so the *)
(* key of d1 is at most the key of d2 for all days d1 <= d2 of a run of    *)
(* consecutive days, a year boundary included); the rows of the series are *)
(* in the order of the dates: the row of the earlier day is not after the  *)
(* row of the later day, and the last row has the current balance.         *)
RowOfDate(rows, g, d) ==
    CHOOSE r \in 1..Len(rows) : rows[r].period = groupKey(g, tz, d)

C18_KeyOrderIsDateOrder ==
    \A i, j \in 1..Len(entries) :
       localeCompare(entries[i].date, entries[j].date) <= 0 =>
          /\ \A g \in PERIODS :
                localeCompare(groupKey(g, tz, entries[i].date),
                              groupKey(g, tz, entries[j].date)) <= 0
          /\ RowOfDate(balanceChartData, period, entries[i].date)
                <= RowOfDate(balanceChartData, period, entries[j].date)
          /\ Last(balanceChartData).balance = currentBalance

\* December 31 and the January 1 after it, in a browser west of UTC, shown
\* by week: the rows' keys are in the order of the days.
C18_Witness ==
    /\ Len(entries) = 2
    /\ SubSeq(entries[2].date, 5, 10) = <<"-", "1", "2", "-", "3", "1">>
    /\ entries[1].date = NextDay(entries[2].date)
    /\ tz < 0
    /\ period = "week"
    /\ Len(balanceChartData) >= 1

-----------------------------------------------------------------------------
(* C19: the week key of every entry's date has a two-digit week number     *)
(* between 1 and 54, and the week key of a January 1 is week 01 of the     *)
(* date's year.                                                            *)
WeekNumberOf(k) == DigitsValue(SubSeq(k, 7, Len(k)), 0)

C19_WeekNumberRange ==
    \A i \in 1..Len(entries) :
       LET d == entries[i].date
           k == groupKey("week", tz, d)
       IN /\ Len(k) = 8
          /\ WeekNumberOf(k) \in 1..54
          /\ (DateMonth(d) = 1 /\ DateDay(d) = 1) =>
                k = SubSeq(d, 1, 4) \o <<"-", "W", "0", "1">>

-----------------------------------------------------------------------------
(* C21: a step of addFromForm with the form's amount or description empty  *)
(* leaves the entries and the form as they are; otherwise the new list is  *)
(* the old one followed by one entry that has the form's field values and  *)
(* an id never drawn before, that entry is a counted one, and the form is  *)
(* an empty entry with another new id.                                     *)
C21_FormSubmission ==
    [][addFromForm =>
          IF formData.amount = <<>> \/ formData.description = <<>>
          THEN entries' = entries /\ formData' = formData
          ELSE /\ Len(entries') = Len(entries) + 1
               /\ SubSeq(entries', 1, Len(entries)) = entries
               /\ Last(entries') = [formData EXCEPT !.id = Last(entries').id]
               /\ Last(entries').id >= nextUid
               /\ IsCounted(Last(entries'))
               /\ formData' = emptyEntry(formData'.id)
               /\ formData'.id >= nextUid
               /\ formData'.id # Last(entries').id]_vars

\* A form with a description, an amount and a loaded receipt was submitted
\* below another row: the entry has the three, the form is empty again.
C21_Witness ==
    /\ toast = "added"
    /\ Len(entries) = 2
    /\ entries[2].description = Lunch
    /\ entries[2].amount = Amount5000
    /\ entries[2].receipt \in Files
    /\ formData = emptyEntry(entries[2].id + 1)

-----------------------------------------------------------------------------
(* C22: a step of addPlan with the three plan values of the form empty     *)
(* leaves the plans and the plan form as they are; otherwise the form is   *)
(* stored (in the place of the plan of its month, under that plan's id, or *)
(* at the end of the list when the month has no plan) and the plan form is *)
(* an empty plan with a new id. After every step no plan of the list has   *)
(* all three values empty.                                                 *)
AllThreeEmpty(p) ==
    p.targetBalance = <<>> /\ p.plannedIncome = <<>> /\ p.plannedExpense = <<>>

C22_PlanSubmission ==
    [][/\ addPlan =>
            IF AllThreeEmpty(planForm)
            THEN plans' = plans /\ planForm' = planForm
            ELSE /\ planForm' = emptyPlan(planForm'.id)
                 /\ planForm'.id >= nextUid
                 /\ IF \E i \in 1..Len(plans) : plans[i].month = planForm.month
                    THEN /\ Len(plans') = Len(plans)
                         /\ \A i \in 1..Len(plans) :
                               plans'[i] = IF plans[i].month = planForm.month
                                           THEN [planForm EXCEPT !.id = plans[i].id]
                                           ELSE plans[i]
                    ELSE plans' = Append(plans, planForm)
       /\ \A i \in 1..Len(plans') : ~AllThreeEmpty(plans'[i])]_vars

\* A plan with the target "0" as its only value is stored, and an empty
\* form has just been rejected.
C22_Witness ==
    /\ toast = "planWarn"
    /\ AllThreeEmpty(planForm)
    /\ Len(plans) >= 1
    /\ plans[1].targetBalance = AmountZero
    /\ plans[1].plannedIncome = <<>> /\ plans[1].plannedExpense = <<>>

====
